---- MODULE Spec2Model ----
(***************************************************************************)
(* Model of the lenny_graph Next.js application: the graph builder         *)
(* (createGraph), the subgraph filter (filterGraph), the force-directed    *)
(* layout tick (updateLayout) and the React state/effect plumbing of the   *)
(* Home page and the Graph3D component that connects them.                 *)
(*                                                                         *)
(* Numbers.  Positions, velocities and forces are IEEE doubles in the      *)
(* program.  Here they are fixed-point integers in units of 1/100         *)
(* (hundredths), every division truncating toward zero.  An edge strength  *)
(* (sharedCount / 10) is kept as the exact fraction num/den.               *)
(*                                                                         *)
(* Indices.  Node ids, edge endpoints and mesh indices are 0-based as in   *)
(* the program; TLA+ sequences are 1-based, so element i of an array a is  *)
(* a[i + 1].                                                               *)
(*                                                                         *)
(* Objects.  Node objects are shared by reference between the full graph   *)
(* and every filtered graph (Array.prototype.filter copies references).    *)
(* The variable heap maps object identities to node records and the node   *)
(* arrays are sequences of object identities.                              *)
(***************************************************************************)
EXTENDS Integers, Sequences, FiniteSets, TLC

VARIABLES
    loading,              \* page.tsx:19        Home state `loading`
    episodes,             \* page.tsx:12        Home state `episodes`
    heap,                 \* the Node objects created by createGraph
    fullGraph,            \* page.tsx:32-35     memo `fullGraph`
    filteredGraph,        \* page.tsx:38-46     memo `filteredGraph`
    nodes,                \* page.tsx:13        Home state `nodes`
    edges,                \* page.tsx:14        Home state `edges`
    nodesArray,           \* which array object `nodes`/`edges` currently are
    dirty,                \* setNodes/setEdges of page.tsx:49-50 queued, not yet rendered
    selectedCategories,   \* page.tsx:16
    selectedFunctions,    \* page.tsx:17
    selectedAudiences,    \* page.tsx:18
    selectedNode,         \* page.tsx:15
    nodesRef,             \* Graph3D.tsx:24
    edgesRef,             \* Graph3D.tsx:25
    nodeMeshes,           \* Graph3D.tsx:21     nodeMeshesRef.current
    ticks,                \* number of frame callbacks so far (bounded)
    animation,            \* Graph3D.tsx:23, 303-315: the animation loop
    before                \* history: the active graph right before the rebuild just made

vars == << loading, episodes, heap, fullGraph, filteredGraph, nodes, edges,
           nodesArray, dirty, selectedCategories, selectedFunctions,
           selectedAudiences, selectedNode, nodesRef, edgesRef, nodeMeshes,
           ticks, animation, before >>

----------------------------------------------------------------------------
(* Bounds of the model *)

\* longest item sequence the loader returns in the application model
MaxEpisodes == 2

\* longest item sequence given to the builder/filter model
MaxItems == 3

\* most tag values selected at once in one dimension of the filter panel
MaxSelected == 2

\* most animation frames in one behaviour
MaxTicks == 2

\* the largest node sequence given to the layout model (from 22 nodes on
\* there are more pairs than the repulsion loop evaluates)
MaxNodes == 22

----------------------------------------------------------------------------
(* Program constants.  Lengths are in hundredths of a program unit. *)

\* Math.max(-100, Math.min(100, position[0]))
BoundX == 10000

\* Math.max(-100, Math.min(100, position[1]))
BoundY == 10000

\* Math.max(-50, Math.min(50, position[2]))
BoundZ == 5000

\* strength: sharedCount / 10
StrengthDivisor == 10

\* if (sharedCount >= 2)
ConnectionThreshold == 2

\* repulsionStrength = 0.03: a force of 0.03 / distance^2 program units is
\* 30000 / d^2 hundredths when d is the distance in hundredths
RepulsionStrength == 30000

\* attractionStrength = 0.003 = AttractionNum / AttractionDen
AttractionNum == 3
AttractionDen == 1000

\* damping = 0.95 = DampingNum / DampingDen
DampingNum == 95
DampingDen == 100

\* maxVelocity = 0.5
maxVelocity == 50

\* `|| 0.1`: the distance used when Math.sqrt gives 0
FallbackDistance == 10

\* maxRepulsionChecks = Math.min(currentNodes.length * 10, 5000)
RepulsionChecksPerNode == 10
RepulsionChecksCap == 5000

\* selectedNode: null, or the selected Episode in a one-element sequence
Null == << >>

----------------------------------------------------------------------------
(* Generic helpers *)

Range(s) == { s[k] : k \in DOMAIN s }

Min(a, b) == IF a <= b THEN a ELSE b
Max(a, b) == IF a >= b THEN a ELSE b

\* JavaScript number division followed by rounding to the fixed-point grid:
\* truncation toward zero
TDiv(a, b) == IF a >= 0 THEN a \div b ELSE -((-a) \div b)

\* Math.sqrt on the fixed-point grid: the integer square root, by bisection
\* (46340 is the largest root of a 32-bit integer)
RECURSIVE SqrtBetween(_, _, _)
SqrtBetween(n, lo, hi) ==
    IF lo >= hi THEN lo
    ELSE LET mid == (lo + hi + 1) \div 2
         IN  IF mid * mid <= n THEN SqrtBetween(n, mid, hi)
             ELSE SqrtBetween(n, lo, mid - 1)

Sqrt(n) == SqrtBetween(n, 0, Min(n, 46340))

\* mutant of FilterIdx: the kept elements come out in reverse order
RECURSIVE FilterIdx_Reversed(_, _, _)
FilterIdx_Reversed(s, keep, k) ==
    IF k > Len(s) THEN << >>
    ELSE IF k \in keep THEN FilterIdx_Reversed(s, keep, k + 1) \o << s[k] >>
    ELSE FilterIdx_Reversed(s, keep, k + 1)

\* Array.prototype.filter
RECURSIVE FilterIdx(_, _, _)
FilterIdx(s, keep, k) ==
    IF k > Len(s) THEN << >>
    ELSE IF k \in keep THEN << s[k] >> \o FilterIdx(s, keep, k + 1)
    ELSE FilterIdx(s, keep, k + 1)

----------------------------------------------------------------------------
(* types.ts *)

Episode(name, cats, funcs, auds) ==
    [ episode_name |-> name, categories |-> cats, functions |-> funcs,
      primary_audience |-> auds ]

Node(i, ep, pos, vel) ==
    [ id |-> i, episode |-> ep, position |-> pos, velocity |-> vel ]

Edge(s, t, num) ==
    [ source |-> s, target |-> t,
      strength |-> [ num |-> num, den |-> StrengthDivisor ] ]

Zero3 == << 0, 0, 0 >>

EmptyGraph == [ nodes |-> << >>, edges |-> << >> ]

----------------------------------------------------------------------------
(* graphUtils: createGraph *)

\* a.filter(c => b.includes(c)).length
SharedLength(a, b) == Cardinality({ k \in DOMAIN a : a[k] \in Range(b) })

\* the sharedCount accumulated for (node1, node2) in the double loop
sharedCount(e1, e2) ==
    SharedLength(e1.categories, e2.categories)
    + SharedLength(e1.functions, e2.functions)
    + SharedLength(e1.primary_audience, e2.primary_audience)

\* the pairs (i, j), j < n, one pass of the inner loop visits from j on
RECURSIVE PairsFrom(_, _, _)
PairsFrom(n, i, j) ==
    IF j >= n THEN << >>
    ELSE << << i, j >> >> \o PairsFrom(n, i, j + 1)

\* the pairs (i, j), i < j, in the order the double loop visits them from
\* outer index i on
RECURSIVE PairRows(_, _)
PairRows(n, i) ==
    IF i >= n THEN << >>
    ELSE PairsFrom(n, i, i + 1) \o PairRows(n, i + 1)

Pairs(n) == PairRows(n, 0)

\* mutant of BuildEdges: connects every pair that shares anything
RECURSIVE BuildEdges_AnyShared(_, _, _)
BuildEdges_AnyShared(eps, pairs, k) ==
    IF k > Len(pairs) THEN << >>
    ELSE LET i == pairs[k][1]
             j == pairs[k][2]
             c == sharedCount(eps[i + 1], eps[j + 1])
         IN  IF c >= 1
             THEN << Edge(i, j, c) >> \o BuildEdges_AnyShared(eps, pairs, k + 1)
             ELSE BuildEdges_AnyShared(eps, pairs, k + 1)

\* edges.push({source: i, target: j, strength: sharedCount / 10}) when
\* sharedCount >= 2
RECURSIVE BuildEdges(_, _, _)
BuildEdges(eps, pairs, k) ==
    IF k > Len(pairs) THEN << >>
    ELSE LET i == pairs[k][1]
             j == pairs[k][2]
             c == sharedCount(eps[i + 1], eps[j + 1])
         IN  IF c >= ConnectionThreshold
             THEN << Edge(i, j, c) >> \o BuildEdges(eps, pairs, k + 1)
             ELSE BuildEdges(eps, pairs, k + 1)

\* the outer loop of createGraph: the edges of the pairs (i, j), j > i, one
\* outer index after the other
RECURSIVE EdgeRows(_, _)
EdgeRows(eps, i) ==
    IF i >= Len(eps) THEN << >>
    ELSE BuildEdges(eps, PairsFrom(Len(eps), i, i + 1), 1) \o EdgeRows(eps, i + 1)

\* mutant of createGraph: ids count from 1
createGraph_IdFromOne(eps, rnd) ==
    [ nodes |-> [ k \in 1 .. Len(eps) |-> Node(k, eps[k], rnd[k], Zero3) ],
      edges |-> EdgeRows(eps, 0) ]

\* createGraph(episodes); rnd[k] is the position Math.random gives node k.
\* The result holds the node records by value; the caller allocates them.
createGraph(eps, rnd) ==
    [ nodes |-> [ k \in 1 .. Len(eps) |-> Node(k - 1, eps[k], rnd[k], Zero3) ],
      edges |-> EdgeRows(eps, 0) ]

----------------------------------------------------------------------------
(* graphUtils: filterGraph *)

\* arr.some(x => selected.has(x))
Some(arr, selected) == \E k \in DOMAIN arr : arr[k] \in selected

\* mutant of Matches: one matching dimension is enough (OR across dimensions)
Matches_AnyDimension(ep, sc, sf, sa) ==
    \/ (sc # {} /\ Some(ep.categories, sc))
    \/ (sf # {} /\ Some(ep.functions, sf))
    \/ (sa # {} /\ Some(ep.primary_audience, sa))

\* matchesCategory && matchesFunction && matchesAudience
Matches(ep, sc, sf, sa) ==
    /\ (sc = {} \/ Some(ep.categories, sc))
    /\ (sf = {} \/ Some(ep.functions, sf))
    /\ (sa = {} \/ Some(ep.primary_audience, sa))

\* mutant of FilteredNodeIndices: collects Node.id in place of the array index
FilteredNodeIndices_ById(h, ns, sc, sf, sa) ==
    { h[ns[q]].id : q \in { r \in DOMAIN ns : Matches(h[ns[r]].episode, sc, sf, sa) } }

\* filteredNodeIndices, 0-based
FilteredNodeIndices(h, ns, sc, sf, sa) ==
    { k - 1 : k \in { q \in DOMAIN ns : Matches(h[ns[q]].episode, sc, sf, sa) } }

\* mutant of IndexMap: the new indices count from 1
IndexMap_FromOne(kept) == [ old \in kept |-> Cardinality({ q \in kept : q <= old }) ]

\* indexMap: a Set iterates in insertion order, which is ascending here
IndexMap(kept) == [ old \in kept |-> Cardinality({ q \in kept : q < old }) ]

\* mutant of FilterEdges: keeps the old endpoint indices
RECURSIVE FilterEdges_NoRemap(_, _, _)
FilterEdges_NoRemap(es, kept, k) ==
    IF k > Len(es) THEN << >>
    ELSE IF es[k].source \in kept /\ es[k].target \in kept
         THEN << es[k] >> \o FilterEdges_NoRemap(es, kept, k + 1)
         ELSE FilterEdges_NoRemap(es, kept, k + 1)

RECURSIVE FilterEdges(_, _, _)
FilterEdges(es, kept, k) ==
    IF k > Len(es) THEN << >>
    ELSE IF es[k].source \in kept /\ es[k].target \in kept
         THEN << [ source |-> IndexMap(kept)[es[k].source],
                   target |-> IndexMap(kept)[es[k].target],
                   strength |-> es[k].strength ] >>
              \o FilterEdges(es, kept, k + 1)
         ELSE FilterEdges(es, kept, k + 1)

\* mutant of filterGraph: no early return, and an empty selection set
\* matches nothing
filterGraph_EmptyMatchesNothing(h, ns, es, sc, sf, sa) ==
    LET kept == { k - 1 : k \in { q \in DOMAIN ns :
                      /\ Some(h[ns[q]].episode.categories, sc)
                      /\ Some(h[ns[q]].episode.functions, sf)
                      /\ Some(h[ns[q]].episode.primary_audience, sa) } }
    IN  [ nodes |-> FilterIdx(ns, { q + 1 : q \in kept }, 1),
          edges |-> FilterEdges(es, kept, 1) ]

\* filterGraph(nodes, edges, selectedCategories, selectedFunctions,
\* selectedAudiences); h gives the node objects the array ns refers to
filterGraph(h, ns, es, sc, sf, sa) ==
    IF sc = {} /\ sf = {} /\ sa = {}
    THEN [ nodes |-> ns, edges |-> es ]
    ELSE LET kept == FilteredNodeIndices(h, ns, sc, sf, sa)
         IN  [ nodes |-> FilterIdx(ns, { q + 1 : q \in kept }, 1),
               edges |-> FilterEdges(es, kept, 1) ]

----------------------------------------------------------------------------
(* Graph3D: the force-directed layout tick *)

Clamp(lo, hi, v) == Max(lo, Min(hi, v))

\* Math.sqrt(diff[0] ** 2 + diff[1] ** 2 + diff[2] ** 2) || 0.1
\* (the root lies between the largest component and the sum of the
\* components, which is where it is looked for)
Distance(diff) ==
    LET a == [ c \in 1 .. 3 |-> IF diff[c] < 0 THEN -diff[c] ELSE diff[c] ]
        d == SqrtBetween(diff[1] * diff[1] + diff[2] * diff[2] + diff[3] * diff[3],
                         Max(a[1], Max(a[2], a[3])), a[1] + a[2] + a[3])
    IN  IF d = 0 THEN FallbackDistance ELSE d

\* mutant of RepulsionForce: the quotient is rounded down, not towards 0
RepulsionForce_Floored(diff, d) ==
    IF d * d > RepulsionStrength THEN Zero3
    ELSE [ c \in 1 .. 3 |-> (diff[c] * RepulsionStrength) \div (d * d * d) ]

\* (diff[c] / distance) * (repulsionStrength / distance ** 2).  The quotient
\* is below one grid step, hence 0, once distance^2 exceeds
\* RepulsionStrength (|diff[c]| <= distance).
RepulsionForce(diff, d) ==
    IF d * d > RepulsionStrength THEN Zero3
    ELSE [ c \in 1 .. 3 |-> TDiv(diff[c] * RepulsionStrength, d * d * d) ]

\* mutant of AttractionForce: a pull of fixed size, whatever the distance
AttractionForce_FixedPull(diff, strength) ==
    [ c \in 1 .. 3 |-> IF diff[c] > 0 THEN 1 ELSE IF diff[c] < 0 THEN -1 ELSE 0 ]

\* (diff[c] / distance) * (attractionStrength * distance * edge.strength)
AttractionForce(diff, strength) ==
    [ c \in 1 .. 3 |->
        TDiv(diff[c] * AttractionNum * strength.num, AttractionDen * strength.den) ]

Add3(a, b) == [ c \in 1 .. 3 |-> a[c] + b[c] ]
Sub3(a, b) == [ c \in 1 .. 3 |-> a[c] - b[c] ]

\* mutant of Repulsion: only node1 of a pair feels the force
RECURSIVE Repulsion_OneSided(_, _, _, _, _)
Repulsion_OneSided(h, ns, pairs, maxChecks, k) ==
    IF k > Len(pairs) \/ k > maxChecks \/ DOMAIN h = {} THEN h
    ELSE LET o1 == ns[pairs[k][1] + 1]
             o2 == ns[pairs[k][2] + 1]
             diff == Sub3(h[o1].position, h[o2].position)
             f == RepulsionForce(diff, Distance(diff))
             h1 == [ h EXCEPT ![o1].velocity = Add3(@, f) ]
         IN  Repulsion_OneSided(h1, ns, pairs, maxChecks, k + 1)

\* one pass of the inner repulsion loop, pair by pair, at most maxChecks
\* pairs: node1.velocity += force; node2.velocity -= force
\* (the test on DOMAIN h has TLC evaluate h at every step, not in one deep
\* chain at the end)
RECURSIVE Repulsion(_, _, _, _, _)
Repulsion(h, ns, pairs, maxChecks, k) ==
    IF k > Len(pairs) \/ k > maxChecks \/ DOMAIN h = {} THEN h
    ELSE LET o1 == ns[pairs[k][1] + 1]
             o2 == ns[pairs[k][2] + 1]
             diff == Sub3(h[o1].position, h[o2].position)
             f == RepulsionForce(diff, Distance(diff))
             h1 == [ h EXCEPT ![o1].velocity = Add3(@, f) ]
             h2 == [ h1 EXCEPT ![o2].velocity = Sub3(@, f) ]
         IN  Repulsion(h2, ns, pairs, maxChecks, k + 1)

\* mutant of Attraction: target.velocity += force; source.velocity -= force
RECURSIVE Attraction_TargetGains(_, _, _, _)
Attraction_TargetGains(h, ns, es, k) ==
    IF k > Len(es) THEN h
    ELSE IF ~ ((es[k].source + 1) \in DOMAIN ns /\ (es[k].target + 1) \in DOMAIN ns)
         THEN Attraction_TargetGains(h, ns, es, k + 1)
         ELSE LET src == ns[es[k].source + 1]
                  tgt == ns[es[k].target + 1]
                  diff == Sub3(h[tgt].position, h[src].position)
                  f == AttractionForce(diff, es[k].strength)
                  h1 == [ h EXCEPT ![tgt].velocity = Add3(@, f) ]
                  h2 == [ h1 EXCEPT ![src].velocity = Sub3(@, f) ]
              IN  Attraction_TargetGains(h2, ns, es, k + 1)

\* currentEdges.forEach: source.velocity += force; target.velocity -= force,
\* with diff = target.position - source.position
RECURSIVE Attraction(_, _, _, _)
Attraction(h, ns, es, k) ==
    IF k > Len(es) \/ DOMAIN h = {} THEN h
    ELSE IF ~ ((es[k].source + 1) \in DOMAIN ns /\ (es[k].target + 1) \in DOMAIN ns)
         THEN Attraction(h, ns, es, k + 1)
         ELSE LET src == ns[es[k].source + 1]
                  tgt == ns[es[k].target + 1]
                  diff == Sub3(h[tgt].position, h[src].position)
                  f == AttractionForce(diff, es[k].strength)
                  h1 == [ h EXCEPT ![src].velocity = Add3(@, f) ]
                  h2 == [ h1 EXCEPT ![tgt].velocity = Sub3(@, f) ]
              IN  Attraction(h2, ns, es, k + 1)

\* mutant of DampedVelocity: the velocity is damped but not capped
DampedVelocity_NoCap(v) ==
    [ c \in 1 .. 3 |-> TDiv(v[c] * DampingNum, DampingDen) ]

\* node.velocity[c] *= damping, then capped to [-maxVelocity, maxVelocity]
DampedVelocity(v) ==
    [ c \in 1 .. 3 |-> Clamp(-maxVelocity, maxVelocity, TDiv(v[c] * DampingNum, DampingDen)) ]

\* mutant of BoundedPosition: the upper x bound is missing
BoundedPosition_NoUpperX(p) ==
    << Max(-BoundX, p[1]), Clamp(-BoundY, BoundY, p[2]), Clamp(-BoundZ, BoundZ, p[3]) >>

\* node.position[c] += node.velocity[c], then kept within bounds
BoundedPosition(p) ==
    << Clamp(-BoundX, BoundX, p[1]), Clamp(-BoundY, BoundY, p[2]),
       Clamp(-BoundZ, BoundZ, p[3]) >>

\* mutant of Integrate: every node object is moved, active or not
Integrate_AllObjects(h, ns) ==
    [ o \in DOMAIN h |->
        LET v == DampedVelocity(h[o].velocity)
        IN  [ h[o] EXCEPT !.velocity = v,
                          !.position = BoundedPosition(Add3(h[o].position, v)) ] ]

\* the integration loop over currentNodes
Integrate(h, ns) ==
    [ o \in DOMAIN h |->
        IF o \in Range(ns)
        THEN LET v == DampedVelocity(h[o].velocity)
             IN  [ h[o] EXCEPT !.velocity = v,
                               !.position = BoundedPosition(Add3(h[o].position, v)) ]
        ELSE h[o] ]

\* nodeMeshesRef.current[index].position.set(...node.position)
MoveMeshes(h, ns, meshes) ==
    [ m \in DOMAIN meshes |->
        IF m \in DOMAIN ns THEN [ meshes[m] EXCEPT !.position = h[ns[m]].position ]
        ELSE meshes[m] ]

\* the outer repulsion loop from index i on, repulsionCount pairs evaluated
\* so far: for (i; i < length && repulsionCount < maxRepulsionChecks; i++)
RECURSIVE RepulsionRows(_, _, _, _, _)
RepulsionRows(h, ns, maxChecks, i, repulsionCount) ==
    IF i >= Len(ns) \/ repulsionCount >= maxChecks THEN h
    ELSE LET row == PairsFrom(Len(ns), i, i + 1)
             left == maxChecks - repulsionCount
         IN  RepulsionRows(Repulsion(h, ns, row, left, 1), ns, maxChecks, i + 1,
                           repulsionCount + Min(Len(row), left))

\* mutant of RepulsionPhase: every pair is evaluated, whatever their number
RepulsionPhase_Uncapped(h, ns) ==
    RepulsionRows(h, ns, Len(ns) * Len(ns), 0, 0)

\* the repulsion double loop with its cap:
\* maxRepulsionChecks = Math.min(currentNodes.length * 10, 5000)
RepulsionPhase(h, ns) ==
    RepulsionRows(h, ns, Min(Len(ns) * RepulsionChecksPerNode, RepulsionChecksCap), 0, 0)

\* the two force phases of a tick: repulsion, then attraction along edges
ForcePhases(h, ns, es) == Attraction(RepulsionPhase(h, ns), ns, es, 1)

\* updateLayout(): one tick over nodesRef.current / edgesRef.current
updateLayout(h, ns, es, meshes) ==
    IF Len(ns) = 0 THEN [ heap |-> h, meshes |-> meshes ]
    ELSE LET h3 == Integrate(ForcePhases(h, ns, es), ns)
         IN  [ heap |-> h3, meshes |-> MoveMeshes(h3, ns, meshes) ]

----------------------------------------------------------------------------
(* Graph3D: the scene *)

\* new THREE.Mesh(...); mesh.position.set(...node.position);
\* mesh.userData = { nodeIndex: index, episode: node.episode }
Mesh(index, node) ==
    [ nodeIndex |-> index, episode |-> node.episode, position |-> node.position ]

\* the mount effect's createGraph(): one mesh per node of nodesRef.current
SceneCreateGraph(h, ns) == [ k \in 1 .. Len(ns) |-> Mesh(k - 1, h[ns[k]]) ]

\* existingPositions: episode_name -> position of the LAST mesh carrying
\* that name (Map.set overwrites)
HasExisting(meshes, name) ==
    \E m \in DOMAIN meshes : meshes[m].episode.episode_name = name

ExistingPosition(meshes, name) ==
    LET last == CHOOSE m \in DOMAIN meshes :
                    /\ meshes[m].episode.episode_name = name
                    /\ \A q \in DOMAIN meshes :
                           meshes[q].episode.episode_name = name => q <= m
    IN  meshes[last].position

\* mutant of RebuildNode: the velocity is carried over
RebuildNode_KeepVelocity(meshes, node) ==
    IF HasExisting(meshes, node.episode.episode_name)
    THEN [ node EXCEPT !.position = ExistingPosition(meshes, node.episode.episode_name) ]
    ELSE node

\* the effect on [nodes, edges]: rebuild the meshes from nodesRef.current,
\* giving every node whose name has a previous mesh that mesh's position
\* and velocity 0
RebuildNode(meshes, node) ==
    IF HasExisting(meshes, node.episode.episode_name)
    THEN [ node EXCEPT !.position = ExistingPosition(meshes, node.episode.episode_name),
                       !.velocity = Zero3 ]
    ELSE node

Rebuild(h, ns, meshes) ==
    LET h1 == [ o \in DOMAIN h |->
                  IF o \in Range(ns) THEN RebuildNode(meshes, h[o]) ELSE h[o] ]
    IN  [ heap |-> h1, meshes |-> SceneCreateGraph(h1, ns) ]

\* the effect on [paused]: when paused, zero every velocity of nodesRef.current
StopVelocities(h, ns) ==
    [ o \in DOMAIN h |->
        IF o \in Range(ns) THEN [ h[o] EXCEPT !.velocity = Zero3 ] ELSE h[o] ]

----------------------------------------------------------------------------
(* Inputs *)

\* records the loader can return: episode_name is host_name || 'Unknown', so
\* names repeat; functions and primary_audience are capitalised after
\* de-duplication (or not de-duplicated at all), so their values can repeat
EpisodePool ==
    { Episode("Lenny", << "Product" >>, << "Eng" >>, << >>),
      Episode("Unknown", << "Product" >>, << "Eng" >>, << "Founders" >>) }

ItemPool ==
    { Episode("A", << "Product", "Growth" >>, << >>, << >>),
      Episode("B", << "Product", "Growth" >>, << >>, << >>),
      Episode("C", << "Product" >>, << >>, << >>),
      Episode("Unknown", << >>, << "Eng", "Eng" >>, << >>),
      Episode("Unknown", << "Product" >>, << "Eng" >>, << >>),
      Episode("Lenny", << "Product", "Growth", "Design", "Data" >>,
              << "Eng", "Pm", "Sales", "Ops" >>, << "Founders", "Pms", "Ics" >>) }

SeqsUpTo(S, n) == UNION { [ 1 .. k -> S ] : k \in 0 .. n }

\* positions (Math.random() - 0.5) * 200 (x, y) and * 100 (z) can give:
\* a point next to the upper x and z walls, a point 0.1 away from it, and
\* the opposite corner of the box
NearWall == << 9990, 0, 4990 >>
Beside == << 9980, 0, 4990 >>
FarCorner == << -10000, 0, -5000 >>

\* the random draws of one createGraph call over n items: all nodes on one
\* point, neighbours 0.1 apart, or neighbours at opposite corners
Placements(n) ==
    { [ k \in 1 .. n |-> NearWall ],
      [ k \in 1 .. n |-> IF k % 2 = 1 THEN NearWall ELSE Beside ],
      [ k \in 1 .. n |-> IF k % 2 = 1 THEN NearWall ELSE FarCorner ] }

\* a point 0.07 away from NearWall
Closer == << 9983, 0, 4990 >>

\* the draws the layout model starts from: those of Placements, neighbours
\* 0.07 apart, and a row along x with neighbours 1.2 apart
LayoutPlacements(n) ==
    Placements(n)
    \cup { [ k \in 1 .. n |-> IF k % 2 = 1 THEN NearWall ELSE Closer ],
           [ k \in 1 .. n |-> << 120 * k, 0, 0 >> ] }

\* a long item sequence: every third item shares two tag values with every
\* other third item, the others share one tag value with everyone
Crowd ==
    [ k \in 1 .. MaxNodes |->
        IF k % 3 = 1 THEN Episode("Lenny", << "Product" >>, << "Eng" >>, << >>)
        ELSE Episode("Unknown", << "Product" >>, << >>, << >>) ]

\* the item sequences of the layout model: the short ones, the long one,
\* and the long one without its last item
LayoutItems ==
    SeqsUpTo(EpisodePool, MaxItems) \cup { Crowd, SubSeq(Crowd, 1, MaxNodes - 1) }

\* the draws of the createGraph call of the memo fullGraph, and of the
\* builder/filter model: every node at the origin
AtOrigin(n) == { [ k \in 1 .. n |-> Zero3 ] }

----------------------------------------------------------------------------
(* FilterPanel *)

allCategories(eps) == UNION { Range(eps[k].categories) : k \in DOMAIN eps }
allFunctions(eps) == UNION { Range(eps[k].functions) : k \in DOMAIN eps }
allAudiences(eps) == UNION { Range(eps[k].primary_audience) : k \in DOMAIN eps }

\* handleCategoryChange / handleFunctionChange / handleAudienceChange
handleChange(prev, value, selected) ==
    IF selected THEN prev \cup { value } ELSE prev \ { value }

\* onChange: all.forEach(v => onXChange(v, options.includes(v)))
RECURSIVE onChange(_, _, _)
onChange(prev, all, options) ==
    IF all = {} THEN prev
    ELSE LET v == CHOOSE x \in all : TRUE
         IN  onChange(handleChange(prev, v, v \in options), all \ { v }, options)

----------------------------------------------------------------------------
(* State machine *)

paused == selectedNode # Null

AllEmpty(sc, sf, sa) == sc = {} /\ sf = {} /\ sa = {}

Ids(from, n) == [ k \in 1 .. n |-> from + k ]

\* what the history variable keeps of the active graph before a rebuild:
\* for every active node object, its item (Node.id is the item's index in
\* episodes; it is never rewritten), position and velocity
Snapshot(h, ns) ==
    [ rebuilt |-> TRUE,
      nodes |-> [ k \in DOMAIN ns |->
                    [ item |-> h[ns[k]].id, position |-> h[ns[k]].position,
                      velocity |-> h[ns[k]].velocity ] ] ]

\* the value of the history variable when the last step was not a rebuild
NoRebuild == [ rebuilt |-> FALSE, nodes |-> << >> ]

\* the animation loop of Graph3D: whether the component is mounted, the
\* frames requested from the browser and not yet called back or cancelled
\* (handles count from 1), and animationFrameRef.current (0 for null)
NotMounted == [ mounted |-> FALSE, requested |-> {}, animationFrameRef |-> 0 ]

\* the loop right after a call of animate() that got handle id
Animating(id) == [ mounted |-> TRUE, requested |-> { id }, animationFrameRef |-> id ]

Init ==
    /\ loading = TRUE
    /\ episodes = << >>
    /\ heap = << >>
    /\ fullGraph = EmptyGraph
    /\ filteredGraph = EmptyGraph
    /\ nodes = << >>
    /\ edges = << >>
    /\ nodesArray = "initial"
    /\ dirty = FALSE
    /\ selectedCategories = {}
    /\ selectedFunctions = {}
    /\ selectedAudiences = {}
    /\ selectedNode = Null
    /\ nodesRef = << >>
    /\ edgesRef = << >>
    /\ nodeMeshes = << >>
    /\ ticks = 0
    /\ animation = NotMounted
    /\ before = NoRebuild

\* page.tsx:21-29 and the first render after it.  loadEpisodesData resolves
\* with `data`; setEpisodes/setNodes/setEdges/setLoading are batched; the
\* render computes fullGraph = createGraph(episodes) anew (rnd2) and
\* filteredGraph; Graph3D mounts with nodes = initialNodes: its effects run
\* in order (ref sync, mount effect with createGraph() and the first
\* animate(), rebuild effect); Home's effect then queues
\* setNodes(filteredGraph.nodes).  (Each intermediate result is bound once:
\* the two graphs, the first tick, the rebuild.)
Load(data, rnd1, rnd2) ==
    /\ loading
    /\ \E initial \in { createGraph(data, rnd1) },
          full \in { IF Len(data) = 0 THEN EmptyGraph ELSE createGraph(data, rnd2) } :
         LET n == Len(data)
             h0 == [ o \in 1 .. (n + Len(full.nodes)) |->
                       IF o <= n THEN initial.nodes[o] ELSE full.nodes[o - n] ]
             ns == Ids(0, n)
             fns == Ids(n, Len(full.nodes))
         IN  \E tick \in { updateLayout(h0, ns, initial.edges, SceneCreateGraph(h0, ns)) } :
             \E re \in { Rebuild(tick.heap, ns, tick.meshes) } :
           /\ episodes' = data
           /\ nodes' = ns
           /\ edges' = initial.edges
           /\ nodesArray' = "initial"
           /\ fullGraph' = [ nodes |-> fns, edges |-> full.edges ]
           /\ filteredGraph' = filterGraph(h0, fns, full.edges, selectedCategories,
                                           selectedFunctions, selectedAudiences)
           /\ nodesRef' = ns
           /\ edgesRef' = initial.edges
           /\ heap' = re.heap
           /\ nodeMeshes' = re.meshes
           /\ before' = Snapshot(tick.heap, ns)
    /\ loading' = FALSE
    /\ dirty' = TRUE
    /\ animation' = Animating(1)
    /\ UNCHANGED << selectedCategories, selectedFunctions, selectedAudiences,
                    selectedNode, ticks >>

\* Graph3D.tsx:303-312 animate: the browser calls back for a requested frame;
\* the callback requests the next frame, keeps its handle in
\* animationFrameRef and runs updateLayout once
Frame ==
    /\ ~ loading
    /\ ticks < MaxTicks
    /\ \E id \in animation.requested :
           animation' = [ animation EXCEPT !.requested = (@ \ { id }) \cup { id + 1 },
                                           !.animationFrameRef = id + 1 ]
    /\ \E tick \in { updateLayout(heap, nodesRef, edgesRef, nodeMeshes) } :
           /\ heap' = tick.heap
           /\ nodeMeshes' = tick.meshes
    /\ ticks' = ticks + 1
    /\ UNCHANGED << loading, episodes, fullGraph, filteredGraph, nodes, edges,
                    nodesArray, dirty, selectedCategories, selectedFunctions,
                    selectedAudiences, selectedNode, nodesRef, edgesRef >>
    /\ before' = NoRebuild

\* mutant of Select: the memo filteredGraph is not recomputed
Select_StaleMemo(sc, sf, sa) ==
    /\ ~ loading
    /\ selectedCategories' = sc
    /\ selectedFunctions' = sf
    /\ selectedAudiences' = sa
    /\ dirty' = ~ (AllEmpty(sc, sf, sa) /\ nodesArray = "full")
    /\ UNCHANGED << loading, episodes, animation, heap, fullGraph, filteredGraph, nodes, edges,
                    nodesArray, selectedNode, nodesRef, edgesRef, nodeMeshes, ticks >>
    /\ before' = NoRebuild

\* a selection change followed by the render it causes: the memo
\* filteredGraph is recomputed and Home's effect queues setNodes/setEdges.
\* With an all-empty selection filterGraph returns the fullGraph arrays
\* themselves, and setting a state to the array it already holds queues
\* nothing.
Select(sc, sf, sa) ==
    /\ ~ loading
    /\ selectedCategories' = sc
    /\ selectedFunctions' = sf
    /\ selectedAudiences' = sa
    /\ filteredGraph' = filterGraph(heap, fullGraph.nodes, fullGraph.edges, sc, sf, sa)
    /\ dirty' = ~ (AllEmpty(sc, sf, sa) /\ nodesArray = "full")
    /\ UNCHANGED << loading, episodes, animation, heap, fullGraph, nodes, edges, nodesArray,
                    selectedNode, nodesRef, edgesRef, nodeMeshes, ticks >>
    /\ before' = NoRebuild

\* FilterPanel.tsx:48-53 with page.tsx:53-63
SetCategories(options) ==
    /\ options # selectedCategories
    /\ Select(onChange(selectedCategories, allCategories(episodes), options),
              selectedFunctions, selectedAudiences)

\* FilterPanel.tsx (functions select) with page.tsx:65-75
SetFunctions(options) ==
    /\ options # selectedFunctions
    /\ Select(selectedCategories,
              onChange(selectedFunctions, allFunctions(episodes), options),
              selectedAudiences)

\* FilterPanel.tsx (audiences select) with page.tsx:77-87
SetAudiences(options) ==
    /\ options # selectedAudiences
    /\ Select(selectedCategories, selectedFunctions,
              onChange(selectedAudiences, allAudiences(episodes), options))

\* page.tsx:89-93 handleReset
Reset ==
    /\ ~ AllEmpty(selectedCategories, selectedFunctions, selectedAudiences)
    /\ Select({}, {}, {})

\* mutant of Commit: the ref-sync effect stores the new nodes and leaves
\* edgesRef behind
Commit_EdgesRefStale ==
    /\ ~ loading
    /\ dirty
    /\ LET re == Rebuild(heap, filteredGraph.nodes, nodeMeshes)
           live == Range(fullGraph.nodes)
       IN  /\ heap' = [ o \in live |-> re.heap[o] ]
           /\ nodeMeshes' = re.meshes
    /\ nodes' = filteredGraph.nodes
    /\ edges' = filteredGraph.edges
    /\ nodesArray' = IF AllEmpty(selectedCategories, selectedFunctions, selectedAudiences)
                     THEN "full" ELSE "filtered"
    /\ nodesRef' = filteredGraph.nodes
    /\ before' = Snapshot(heap, nodesRef)
    /\ dirty' = FALSE
    /\ UNCHANGED << loading, episodes, animation, fullGraph, filteredGraph, selectedCategories,
                    selectedFunctions, selectedAudiences, selectedNode, ticks, edgesRef >>

\* the render queued by page.tsx:48-51: nodes/edges become filteredGraph's;
\* Graph3D's effects on [nodes, edges] run in order: ref sync
\* (Graph3D.tsx:32-35), then the rebuild (Graph3D.tsx:366-471).  Node
\* objects no array refers to any more are dropped from the heap.
Commit ==
    /\ ~ loading
    /\ dirty
    /\ \E re \in { Rebuild(heap, filteredGraph.nodes, nodeMeshes) } :
           /\ heap' = [ o \in Range(fullGraph.nodes) |-> re.heap[o] ]
           /\ nodeMeshes' = re.meshes
    /\ nodes' = filteredGraph.nodes
    /\ edges' = filteredGraph.edges
    /\ nodesArray' = IF AllEmpty(selectedCategories, selectedFunctions, selectedAudiences)
                     THEN "full" ELSE "filtered"
    /\ nodesRef' = filteredGraph.nodes
    /\ edgesRef' = filteredGraph.edges
    /\ before' = Snapshot(heap, nodesRef)
    /\ dirty' = FALSE
    /\ UNCHANGED << loading, episodes, animation, fullGraph, filteredGraph, selectedCategories,
                    selectedFunctions, selectedAudiences, selectedNode, ticks >>

\* page.tsx:95-100 handleNodeClick(nodeIndex), with the effect on [paused]
\* (Graph3D.tsx:474-483) when paused turns true.  The handler is the one
\* onNodeClickRef holds: the closure over the nodes of the last render.
handleNodeClick(nodeIndex) ==
    /\ ~ loading
    /\ IF (nodeIndex + 1) \in DOMAIN nodes
       THEN /\ selectedNode' = << heap[nodes[nodeIndex + 1]].episode >>
            /\ heap' = IF paused THEN heap ELSE StopVelocities(heap, nodesRef)
       ELSE UNCHANGED << selectedNode, heap >>
    /\ UNCHANGED << loading, episodes, animation, fullGraph, filteredGraph, nodes, edges,
                    nodesArray, dirty, selectedCategories, selectedFunctions,
                    selectedAudiences, nodesRef, edgesRef, nodeMeshes, ticks >>
    /\ before' = NoRebuild

\* mutant of Click: the index is looked up in the full graph's nodes
Click_FullGraphIndex(m) ==
    /\ ~ loading
    /\ m \in DOMAIN nodeMeshes
    /\ selectedNode' = << heap[fullGraph.nodes[nodeMeshes[m].nodeIndex + 1]].episode >>
    /\ heap' = IF paused THEN heap ELSE StopVelocities(heap, nodesRef)
    /\ UNCHANGED << loading, episodes, animation, fullGraph, filteredGraph, nodes, edges,
                    nodesArray, dirty, selectedCategories, selectedFunctions,
                    selectedAudiences, nodesRef, edgesRef, nodeMeshes, ticks >>
    /\ before' = NoRebuild

\* Graph3D.tsx:160-187 handleClick: the ray hits mesh m and the handler is
\* called with the mesh's userData.nodeIndex
Click(m) ==
    /\ m \in DOMAIN nodeMeshes
    /\ handleNodeClick(nodeMeshes[m].nodeIndex)

\* page.tsx:135-138 NodeDetails onClose
Close ==
    /\ selectedNode # Null
    /\ selectedNode' = Null
    /\ UNCHANGED << loading, episodes, animation, heap, fullGraph, filteredGraph, nodes, edges,
                    nodesArray, dirty, selectedCategories, selectedFunctions,
                    selectedAudiences, nodesRef, edgesRef, nodeMeshes, ticks >>
    /\ before' = NoRebuild

\* mutant of Unmount: the cleanup cancels no frame
Unmount_NoCancel ==
    /\ animation.mounted
    /\ animation' = [ animation EXCEPT !.mounted = FALSE ]
    /\ UNCHANGED << loading, episodes, heap, fullGraph, filteredGraph, nodes, edges,
                    nodesArray, dirty, selectedCategories, selectedFunctions,
                    selectedAudiences, selectedNode, nodesRef, edgesRef, nodeMeshes,
                    ticks >>
    /\ before' = NoRebuild

\* Graph3D.tsx:330-362 the cleanup of the mount effect: the frame whose
\* handle animationFrameRef holds is cancelled (the meshes are disposed of
\* and taken out of the scene; nodeMeshesRef keeps the array)
Unmount ==
    /\ animation.mounted
    /\ animation' = [ animation EXCEPT
                        !.mounted = FALSE,
                        !.requested = IF animation.animationFrameRef # 0
                                      THEN @ \ { animation.animationFrameRef }
                                      ELSE @ ]
    /\ UNCHANGED << loading, episodes, heap, fullGraph, filteredGraph, nodes, edges,
                    nodesArray, dirty, selectedCategories, selectedFunctions,
                    selectedAudiences, selectedNode, nodesRef, edgesRef, nodeMeshes,
                    ticks >>
    /\ before' = NoRebuild

\* the options the user picks among, and the selections made of them
PanelChoices == { "Product", "Growth", "Eng", "Founders" }

Selections(all) ==
    { s \in SUBSET (all \cap PanelChoices) : Cardinality(s) <= MaxSelected }

LoadEpisodes ==
    \E data \in SeqsUpTo(EpisodePool, MaxEpisodes) :
        \E rnd1 \in Placements(Len(data)), rnd2 \in AtOrigin(Len(data)) :
            Load(data, rnd1, rnd2)

LoadItems ==
    \E data \in SeqsUpTo(ItemPool, MaxItems) :
        \E rnd1, rnd2 \in AtOrigin(Len(data)) : Load(data, rnd1, rnd2)

ChangeCategories == \E s \in Selections(allCategories(episodes)) : SetCategories(s)
ChangeFunctions == \E s \in Selections(allFunctions(episodes)) : SetFunctions(s)
ChangeAudiences == \E s \in Selections(allAudiences(episodes)) : SetAudiences(s)
ClickMesh == \E m \in DOMAIN nodeMeshes : Click(m)

\* the handler called with an index that is no place of the node sequence
\* (nodes[nodeIndex] is undefined): one past the last
OutsideIndices == { Len(nodes) }

PickOutside == \E i \in OutsideIndices : handleNodeClick(i)

\* the application
Next ==
    \/ LoadEpisodes
    \/ Frame
    \/ ChangeCategories
    \/ ChangeFunctions
    \/ ChangeAudiences
    \/ Reset
    \/ Commit
    \/ ClickMesh
    \/ PickOutside
    \/ Close

Spec == Init /\ [][Next]_vars

\* the builder and the filter on their own, over richer item sequences
NextGraph ==
    \/ LoadItems
    \/ ChangeCategories
    \/ ChangeFunctions
    \/ ChangeAudiences
    \/ Reset
    \/ Commit

SpecGraph == Init /\ [][NextGraph]_vars

\* the layout on its own: the application showing the full graph of `data`
\* (loaded, first rebuild committed, nothing selected), its nodes at rest at
\* the positions rnd
ShowingFullGraph(data, rnd) ==
    LET g == createGraph(data, rnd)
        ns == Ids(0, Len(data))
    IN  /\ loading = FALSE
        /\ episodes = data
        /\ heap = g.nodes
        /\ fullGraph = [ nodes |-> ns, edges |-> g.edges ]
        /\ filteredGraph = [ nodes |-> ns, edges |-> g.edges ]
        /\ nodes = ns
        /\ edges = g.edges
        /\ nodesArray = "full"
        /\ dirty = FALSE
        /\ selectedCategories = {}
        /\ selectedFunctions = {}
        /\ selectedAudiences = {}
        /\ selectedNode = Null
        /\ nodesRef = ns
        /\ edgesRef = g.edges
        /\ nodeMeshes = SceneCreateGraph(g.nodes, ns)
        /\ ticks = 0
        /\ animation = Animating(1)
        /\ before = NoRebuild

InitLayout ==
    \E data \in LayoutItems :
        \E rnd \in LayoutPlacements(Len(data)) : ShowingFullGraph(data, rnd)

\* the layout loop until the component is unmounted
NextLayout ==
    \/ Frame
    \/ Unmount

SpecLayout == InitLayout /\ [][NextLayout]_vars

----------------------------------------------------------------------------
(* Vocabulary of the properties *)

\* the graph Home currently passes to Graph3D
ActiveGraph == [ nodes |-> nodes, edges |-> edges ]

\* the createGraph outputs held in the state: the memo fullGraph, and the
\* graph of the load effect while it is still the active one
CreatedGraphs ==
    { fullGraph } \cup (IF nodesArray = "initial" THEN { ActiveGraph } ELSE {})

\* every graph instance held in the state
AllGraphs == { fullGraph, filteredGraph, ActiveGraph }

\* the number of tag values two items share, summed over the dimensions
SharedTagValues(e1, e2) ==
    Cardinality(Range(e1.categories) \cap Range(e2.categories))
    + Cardinality(Range(e1.functions) \cap Range(e2.functions))
    + Cardinality(Range(e1.primary_audience) \cap Range(e2.primary_audience))

\* the edges of g from node index i to node index j
EdgesBetween(g, i, j) ==
    { k \in DOMAIN g.edges : g.edges[k].source = i /\ g.edges[k].target = j }

\* the items in the active graph right before the last rebuild
ItemsBefore == { before.nodes[k].item : k \in DOMAIN before.nodes }

\* the snapshot entry of item it (each item has one node in a graph)
EntryBefore(it) ==
    before.nodes[CHOOSE k \in DOMAIN before.nodes : before.nodes[k].item = it]

\* the snapshot entry last recorded under an identity key
LastEntryBefore(name) ==
    before.nodes[CHOOSE k \in DOMAIN before.nodes :
        /\ episodes[before.nodes[k].item + 1].episode_name = name
        /\ \A q \in DOMAIN before.nodes :
               episodes[before.nodes[q].item + 1].episode_name = name => q <= k]

\* the node objects of the active graph whose item was active before the
\* rebuild just made
Survivors == { o \in Range(nodesRef) : heap[o].id \in ItemsBefore }

----------------------------------------------------------------------------
(* C1  identity continuity *)

----------------------------------------------------------------------------
(* C2  pause *)

\* C2: while the simulation is paused (selectedNode is not null), a frame
\* callback (a call of the tick updateLayout) changes no node's position.
C2_PausedPositionsFixed ==
    [][ (paused /\ ticks' # ticks) =>
            \A o \in DOMAIN heap : heap'[o].position = heap[o].position ]_vars

----------------------------------------------------------------------------
(* C3  containment *)

InBox(p) ==
    /\ -BoundX <= p[1] /\ p[1] <= BoundX
    /\ -BoundY <= p[2] /\ p[2] <= BoundY
    /\ -BoundZ <= p[3] /\ p[3] <= BoundZ

\* C3: in every reachable state every node's position lies in the box
\* |x| <= 100, |y| <= 100, |z| <= 50.
C3_PositionsInBox == \A o \in DOMAIN heap : InBox(heap[o].position)

\* a tick has pushed a node onto the upper x wall (createGraph draws x < 100)
C3_Witness ==
    /\ ticks > 0
    /\ \E o \in Range(nodesRef) : heap[o].position[1] = BoundX

----------------------------------------------------------------------------
(* C4  one node per item *)

\* C4: createGraph(items) gives exactly one node per item, in input order:
\* node k holds item k, has id k and, as created, velocity (0,0,0); the
\* empty sequence gives no nodes and no edges.
C4_OneNodePerItem ==
    ~ loading =>
        \A g \in CreatedGraphs :
            /\ Len(g.nodes) = Len(episodes)
            /\ \A k \in DOMAIN g.nodes :
                   /\ heap[g.nodes[k]].episode = episodes[k]
                   /\ heap[g.nodes[k]].id = k - 1
                   /\ (g = fullGraph /\ nodesArray = "initial")
                          => heap[g.nodes[k]].velocity = Zero3
            /\ episodes = << >> => g = EmptyGraph

\* the memo fullGraph of three items, not yet touched by a rebuild
C4_Witness ==
    /\ ~ loading
    /\ nodesArray = "initial"
    /\ Len(fullGraph.nodes) >= 3

----------------------------------------------------------------------------
(* C5  edge iff two shared tag values *)

\* C5: for every pair of distinct indices i < j createGraph emits exactly
\* one edge (i, j) when the two items share at least two tag values, summed
\* over categories, functions and audiences, and none otherwise.
C5_EdgeIffTwoShared ==
    ~ loading =>
        \A g \in CreatedGraphs :
            \A i, j \in 0 .. (Len(g.nodes) - 1) :
                Cardinality(EdgesBetween(g, i, j)) =
                    IF i < j /\ SharedTagValues(episodes[i + 1], episodes[j + 1])
                                    >= ConnectionThreshold
                    THEN 1 ELSE 0

----------------------------------------------------------------------------
(* C6  symmetry of sharedCount *)

\* the strength numerator createGraph gives a pair whose first item is e1
EmittedFor(e1, e2) ==
    IF sharedCount(e1, e2) >= ConnectionThreshold THEN sharedCount(e1, e2) ELSE 0

\* the strength numerator of the edge (i, j) in g, 0 when there is none
EmittedIn(g, i, j) ==
    IF EdgesBetween(g, i, j) = {} THEN 0
    ELSE g.edges[CHOOSE k \in EdgesBetween(g, i, j) : TRUE].strength.num

\* C6: the count createGraph computes for a pair does not depend on which
\* item comes first: the edge it emitted for (i, j) is the one it would
\* emit with item j first.
C6_SharedCountSymmetric ==
    ~ loading =>
        \A g \in CreatedGraphs :
            \A i, j \in 0 .. (Len(g.nodes) - 1) :
                i < j => EmittedIn(g, i, j) = EmittedFor(episodes[j + 1], episodes[i + 1])

----------------------------------------------------------------------------
(* C7  strength *)

\* strength = count / 10, as an equation between fractions
StrengthIs(strength, count) == strength.num * StrengthDivisor = count * strength.den

\* C7: every edge createGraph emits has strength (shared tag values of its
\* pair) / 10, and every edge filterGraph returns has the strength of the
\* input edge between the same two nodes.
C7_StrengthIsSharedOverTen ==
    ~ loading =>
        /\ \A g \in CreatedGraphs :
               \A k \in DOMAIN g.edges :
                   StrengthIs(g.edges[k].strength,
                              SharedTagValues(episodes[g.edges[k].source + 1],
                                              episodes[g.edges[k].target + 1]))
        /\ \A k \in DOMAIN filteredGraph.edges :
               \E q \in DOMAIN fullGraph.edges :
                   /\ fullGraph.nodes[fullGraph.edges[q].source + 1]
                          = filteredGraph.nodes[filteredGraph.edges[k].source + 1]
                   /\ fullGraph.nodes[fullGraph.edges[q].target + 1]
                          = filteredGraph.nodes[filteredGraph.edges[k].target + 1]
                   /\ fullGraph.edges[q].strength = filteredGraph.edges[k].strength

----------------------------------------------------------------------------
(* C8  range of the strength *)

AllEdges == UNION { Range(g.edges) : g \in AllGraphs }

\* C8 as stated: every edge of every graph has a strength in (0, 1].
C8_StrengthInUnitInterval ==
    \A e \in AllEdges :
        /\ 0 < e.strength.num
        /\ e.strength.num <= e.strength.den

\* C8 amended: every edge of every graph has a strength of at least 0.2
\* (the connection threshold over 10), hence above 0; the strength is not
\* capped at 1.
C8_StrengthAtLeastThreshold ==
    \A e \in AllEdges :
        /\ 5 * e.strength.num >= e.strength.den
        /\ 0 < e.strength.num

\* a filtered graph keeps an edge whose strength is above 1
C8_Witness ==
    /\ ~ AllEmpty(selectedCategories, selectedFunctions, selectedAudiences)
    /\ \E k \in DOMAIN filteredGraph.edges :
           filteredGraph.edges[k].strength.num > filteredGraph.edges[k].strength.den

----------------------------------------------------------------------------
(* C9  edges are well formed *)

\* C9: in every graph produced by createGraph or filterGraph every edge
\* satisfies 0 <= source < target < number of nodes of that graph.
C9_EdgesWellFormed ==
    \A g \in AllGraphs :
        \A k \in DOMAIN g.edges :
            /\ 0 <= g.edges[k].source
            /\ g.edges[k].source < g.edges[k].target
            /\ g.edges[k].target < Len(g.nodes)

\* the filter dropped a node and re-indexed an edge of the nodes behind it
C9_Witness ==
    /\ Len(filteredGraph.nodes) < Len(fullGraph.nodes)
    /\ \E k \in DOMAIN filteredGraph.edges :
           filteredGraph.edges[k] \notin Range(fullGraph.edges)

----------------------------------------------------------------------------
(* C10  the empty selection is the identity *)

\* C10: with all three selection sets empty filterGraph returns the nodes
\* and edges of its input, in the same order; and no call of filterGraph
\* changes its input node sequence, its input edges or a node.
C10_EmptySelectionIdentity ==
    /\ [](~ loading /\ AllEmpty(selectedCategories, selectedFunctions, selectedAudiences)
             => /\ filteredGraph.nodes = fullGraph.nodes
                /\ filteredGraph.edges = fullGraph.edges)
    /\ [][ (~ loading /\ << selectedCategories, selectedFunctions, selectedAudiences >>'
                            # << selectedCategories, selectedFunctions, selectedAudiences >>)
             => (fullGraph' = fullGraph /\ heap' = heap) ]_vars

\* the selection has been emptied again after a filtered graph was shown
C10_Witness ==
    /\ AllEmpty(selectedCategories, selectedFunctions, selectedAudiences)
    /\ nodesArray = "filtered"
    /\ fullGraph.edges # << >>
    /\ Len(fullGraph.nodes) >= 3

----------------------------------------------------------------------------
(* C11  which nodes the filter keeps *)

\* the item has a tag of the dimension in the selected set, or the set is empty
DimensionPasses(tags, selected) == selected = {} \/ Range(tags) \cap selected # {}

\* C11: under a selection with a non-empty set, a node of the full graph is
\* in filterGraph's output iff, for each of the three dimensions, the
\* selected set is empty or the item has a tag of the dimension in it; the
\* output holds no other node.
C11_KeptIffMatches ==
    (~ loading /\ ~ AllEmpty(selectedCategories, selectedFunctions, selectedAudiences)) =>
        /\ Range(filteredGraph.nodes) \subseteq Range(fullGraph.nodes)
        /\ \A o \in Range(fullGraph.nodes) :
               o \in Range(filteredGraph.nodes) <=>
                   /\ DimensionPasses(heap[o].episode.categories, selectedCategories)
                   /\ DimensionPasses(heap[o].episode.functions, selectedFunctions)
                   /\ DimensionPasses(heap[o].episode.primary_audience, selectedAudiences)

\* two categories and a function are selected; a kept node has only one of
\* the two categories, and a node with a selected category is dropped for
\* its functions
C11_Witness ==
    /\ ~ loading
    /\ Cardinality(selectedCategories) = 2
    /\ selectedFunctions # {}
    /\ \E o \in Range(filteredGraph.nodes) :
           Cardinality(Range(heap[o].episode.categories) \cap selectedCategories) = 1
    /\ \E o \in Range(fullGraph.nodes) \ Range(filteredGraph.nodes) :
           Range(heap[o].episode.categories) \cap selectedCategories # {}

----------------------------------------------------------------------------
(* C12  the kept nodes are re-indexed densely, in order *)

\* the 0-based position of node object o in the node sequence ns
PositionIn(ns, o) == (CHOOSE k \in DOMAIN ns : ns[k] = o) - 1

\* the nodes of the full graph that survive the current selection
Surviving ==
    { o \in Range(fullGraph.nodes) :
        /\ DimensionPasses(heap[o].episode.categories, selectedCategories)
        /\ DimensionPasses(heap[o].episode.functions, selectedFunctions)
        /\ DimensionPasses(heap[o].episode.primary_audience, selectedAudiences) }

\* C12: filterGraph's output node sequence holds each surviving input node
\* once, at positions 0..m-1, in the relative order of the input.
C12_DenseInOrder ==
    ~ loading =>
        /\ Range(filteredGraph.nodes) = Surviving
        /\ Len(filteredGraph.nodes) = Cardinality(Surviving)
        /\ \A a, b \in DOMAIN filteredGraph.nodes :
               a < b => PositionIn(fullGraph.nodes, filteredGraph.nodes[a])
                            < PositionIn(fullGraph.nodes, filteredGraph.nodes[b])

\* the first input node is dropped and two later ones move up to 0 and 1
C12_Witness ==
    /\ ~ loading
    /\ Len(filteredGraph.nodes) >= 2
    /\ fullGraph.nodes[1] \notin Range(filteredGraph.nodes)
    /\ PositionIn(filteredGraph.nodes, fullGraph.nodes[2]) = 0

----------------------------------------------------------------------------
(* C13  the kept edges are the induced subgraph *)

\* the input edges (by 1-based place in fullGraph.edges) whose two endpoint
\* nodes are both in the output
InducedEdges ==
    { q \in DOMAIN fullGraph.edges :
        /\ fullGraph.nodes[fullGraph.edges[q].source + 1] \in Range(filteredGraph.nodes)
        /\ fullGraph.nodes[fullGraph.edges[q].target + 1] \in Range(filteredGraph.nodes) }

\* the k-th of them in input order
NthInduced(k) ==
    CHOOSE q \in InducedEdges : Cardinality({ r \in InducedEdges : r < q }) = k - 1

\* C13: filterGraph's output edges are the input edges whose two endpoints
\* both survive, none added or lost, in input order; each joins the new
\* positions of the same two nodes and keeps its strength.
C13_InducedEdgesRemapped ==
    ~ loading =>
        /\ Len(filteredGraph.edges) = Cardinality(InducedEdges)
        /\ \A k \in DOMAIN filteredGraph.edges :
               LET out == filteredGraph.edges[k]
                   inp == fullGraph.edges[NthInduced(k)]
               IN  /\ (out.source + 1) \in DOMAIN filteredGraph.nodes
                   /\ (out.target + 1) \in DOMAIN filteredGraph.nodes
                   /\ filteredGraph.nodes[out.source + 1] = fullGraph.nodes[inp.source + 1]
                   /\ filteredGraph.nodes[out.target + 1] = fullGraph.nodes[inp.target + 1]
                   /\ out.strength = inp.strength

\* the filter lost an edge with its dropped endpoint and kept another one,
\* whose endpoints moved to new positions
C13_Witness ==
    /\ ~ loading
    /\ filteredGraph.edges # << >>
    /\ Len(filteredGraph.edges) < Len(fullGraph.edges)
    /\ \E k \in DOMAIN filteredGraph.edges :
           filteredGraph.edges[k].source # fullGraph.edges[NthInduced(k)].source

----------------------------------------------------------------------------
(* C14  Node.id is the node's index *)

\* C14: in every graph that can become active (a createGraph output, a
\* filterGraph output under any selection) each node's id equals the node's
\* position in the graph's node sequence, so the ids are exactly 0..n-1.
C14_IdIsPosition ==
    ~ loading =>
        \A g \in AllGraphs :
            \A k \in DOMAIN g.nodes : heap[g.nodes[k]].id = k - 1

----------------------------------------------------------------------------
(* C15  the filter is idempotent *)

\* filterGraph applied, under the current selection, to its own output
Refiltered ==
    filterGraph(heap, filteredGraph.nodes, filteredGraph.edges,
                selectedCategories, selectedFunctions, selectedAudiences)

\* C15: applying the current selection to filterGraph's output gives that
\* output again, the same nodes and the same edges.
C15_FilterIdempotent ==
    ~ loading =>
        /\ Refiltered.nodes = filteredGraph.nodes
        /\ Refiltered.edges = filteredGraph.edges

\* a selection that dropped the first node and kept an edge between nodes
\* behind it
C15_Witness ==
    /\ ~ loading
    /\ ~ AllEmpty(selectedCategories, selectedFunctions, selectedAudiences)
    /\ fullGraph.nodes[1] \notin Range(filteredGraph.nodes)
    /\ filteredGraph.edges # << >>

----------------------------------------------------------------------------
(* C16  nodes entering the view *)

\* the node objects of the active graph whose item was not active before
\* the rebuild just made
Entering == { o \in Range(nodesRef) : heap[o].id \notin ItemsBefore }

\* C16: right after a rebuild, every node whose item was absent from the
\* previous active graph is in the Builder's initial state: a position
\* inside the box and velocity (0,0,0), nothing left over from an earlier
\* period in which the item was visible.
C16_EnteringNodesFresh ==
    before.rebuilt =>
        \A o \in Entering :
            /\ InBox(heap[o].position)
            /\ heap[o].velocity = Zero3

----------------------------------------------------------------------------
(* C17  no torn reads *)

\* an edge as the two node objects it joins in the node sequence ns, with
\* its strength
Joined(ns, e) == << ns[e.source + 1], ns[e.target + 1], e.strength >>

\* the edges of the full graph between node objects of ns
FullEdgesWithin(ns) ==
    { Joined(fullGraph.nodes, fullGraph.edges[q]) : q \in
        { r \in DOMAIN fullGraph.edges :
            /\ fullGraph.nodes[fullGraph.edges[r].source + 1] \in Range(ns)
            /\ fullGraph.nodes[fullGraph.edges[r].target + 1] \in Range(ns) } }

\* C17: in every state in which a frame callback can run, what the tick
\* reads is of one graph: every edge of edgesRef joins two existing nodes of
\* nodesRef, the two arrays are the nodes and edges Home last rendered (for
\* a graph derived from the full graph, the edges are the full graph's
\* edges between those nodes), and the mesh list was built from nodesRef
\* (same length, mesh k carries index k and the item of node k).
C17_NoTornRead ==
    ~ loading =>
        /\ \A k \in DOMAIN edgesRef :
               /\ (edgesRef[k].source + 1) \in DOMAIN nodesRef
               /\ (edgesRef[k].target + 1) \in DOMAIN nodesRef
        /\ nodesRef = nodes
        /\ edgesRef = edges
        /\ nodesArray # "initial" =>
               { Joined(nodesRef, edgesRef[k]) : k \in DOMAIN edgesRef }
                   = FullEdgesWithin(nodesRef)
        /\ Len(nodeMeshes) = Len(nodesRef)
        /\ \A k \in DOMAIN nodeMeshes :
               /\ nodeMeshes[k].nodeIndex = k - 1
               /\ nodeMeshes[k].episode = heap[nodesRef[k]].episode

\* a tick has run on a filtered graph with an edge (a node is moving), and
\* a selection that removes the edge is rendered but not yet committed
C17_Witness ==
    /\ nodesArray = "filtered"
    /\ dirty
    /\ edgesRef # << >>
    /\ filteredGraph.edges = << >>
    /\ ticks > 0
    /\ \E o \in Range(nodesRef) : heap[o].velocity # Zero3

----------------------------------------------------------------------------
(* C18  the active graph follows the selection *)

\* filterGraph of the full graph under the current selection
FilterOfFull ==
    filterGraph(heap, fullGraph.nodes, fullGraph.edges,
                selectedCategories, selectedFunctions, selectedAudiences)

\* C18: whenever no render is pending, the active graph is filterGraph of
\* the full graph under the current selection, and under the empty
\* selection it holds every item and every edge of the full graph; a Reset
\* empties all three selection sets whatever they were.
C18_ActiveFollowsSelection ==
    /\ [](~ loading /\ ~ dirty =>
             /\ ActiveGraph = FilterOfFull
             /\ AllEmpty(selectedCategories, selectedFunctions, selectedAudiences) =>
                    /\ nodes = fullGraph.nodes
                    /\ edges = fullGraph.edges
                    /\ { heap[o].id : o \in Range(nodes) } = 0 .. (Len(episodes) - 1))
    /\ [][ Reset => AllEmpty(selectedCategories', selectedFunctions', selectedAudiences')
         ]_vars

\* the selection was reset while a filtered graph was shown, and the render
\* has been committed: the rebuild just made brought nodes and edges back
C18_Witness ==
    /\ ~ dirty
    /\ AllEmpty(selectedCategories, selectedFunctions, selectedAudiences)
    /\ nodesArray = "full"
    /\ before.rebuilt
    /\ Len(before.nodes) < Len(nodes)
    /\ edges # << >>

----------------------------------------------------------------------------
(* C19  a click selects the clicked item *)

\* C19: a click resolved to a mesh selects the record of the item the mesh
\* represents (the item of the active node at the mesh's index), whatever
\* filter changes, rebuilds and frames came before; the handler called with
\* an index outside the active node sequence leaves the selection as it was.
C19_ClickSelectsItem ==
    [][ /\ \A m \in DOMAIN nodeMeshes :
               Click(m) =>
                   /\ selectedNode' = << nodeMeshes[m].episode >>
                   /\ selectedNode' = << heap[nodesRef[m]].episode >>
        /\ \A i \in OutsideIndices :
               handleNodeClick(i) => selectedNode' = selectedNode ]_vars

\* the selected item is the one at index 0 of a filtered graph, where no
\* other node of the full graph carries its record and its index in the
\* full graph is another one, while the next selection is rendered but not
\* yet committed
C19_Witness ==
    /\ nodesArray = "filtered"
    /\ dirty
    /\ nodes # << >>
    /\ nodes[1] # fullGraph.nodes[1]
    /\ selectedNode = << heap[nodes[1]].episode >>
    /\ filteredGraph.nodes # nodes
    /\ \A k \in DOMAIN fullGraph.nodes :
           heap[fullGraph.nodes[k]].episode = heap[nodes[1]].episode
               => fullGraph.nodes[k] = nodes[1]

----------------------------------------------------------------------------
(* C20  which endpoint gains the attraction force *)

\* the node objects edge e of the tick's edge sequence joins
SourceOf(e) == nodesRef[e.source + 1]
TargetOf(e) == nodesRef[e.target + 1]

\* the force vector of edge e: along the displacement from source to
\* target, of magnitude attractionStrength * distance * e.strength, on the
\* fixed-point grid
ForceAlong(e) ==
    [ c \in 1 .. 3 |->
        TDiv((heap[TargetOf(e)].position[c] - heap[SourceOf(e)].position[c])
                 * AttractionNum * e.strength.num,
             AttractionDen * e.strength.den) ]

\* the node objects after the tick's attraction step for edge e alone
AfterAttraction(e) == Attraction(heap, nodesRef, << e >>, 1)

\* C20 as stated: for every edge the attraction step adds the force vector
\* to the target's velocity and subtracts it from the source's.
C20_ForceAddedToTarget ==
    ~ loading =>
        \A k \in DOMAIN edgesRef :
            LET e == edgesRef[k]
            IN  /\ AfterAttraction(e)[TargetOf(e)].velocity
                       = Add3(heap[TargetOf(e)].velocity, ForceAlong(e))
                /\ AfterAttraction(e)[SourceOf(e)].velocity
                       = Sub3(heap[SourceOf(e)].velocity, ForceAlong(e))

\* C20 amended: for every edge the attraction step adds the force vector
\* (along the displacement from source to target) to the SOURCE's velocity
\* and subtracts it from the TARGET's, so the endpoints are pulled together.
C20_ForceAddedToSource ==
    ~ loading =>
        \A k \in DOMAIN edgesRef :
            LET e == edgesRef[k]
            IN  /\ AfterAttraction(e)[SourceOf(e)].velocity
                       = Add3(heap[SourceOf(e)].velocity, ForceAlong(e))
                /\ AfterAttraction(e)[TargetOf(e)].velocity
                       = Sub3(heap[TargetOf(e)].velocity, ForceAlong(e))

\* a tick has run on an edge with a non-zero force, and its source is
\* moving in x towards its target
C20_Witness ==
    /\ ticks > 0
    /\ \E k \in DOMAIN edgesRef :
           LET e == edgesRef[k]
           IN  /\ ForceAlong(e) # Zero3
               /\ heap[SourceOf(e)].velocity[1]
                      * (heap[TargetOf(e)].position[1] - heap[SourceOf(e)].position[1]) > 0

----------------------------------------------------------------------------
(* C21  attraction pulls the endpoints together *)

Abs(x) == IF x < 0 THEN -x ELSE x

\* the velocity change the attraction step for edge e alone gives node o
AttractionChange(e, o) == Sub3(AfterAttraction(e)[o].velocity, heap[o].velocity)

\* v points along d, component by component, with a size linear in the
\* distance: |v[c]| is attractionStrength * strength * |d[c]| cut to the grid
PullsAlong(v, d, strength) ==
    \A c \in 1 .. 3 :
        /\ v[c] * d[c] >= 0
        /\ Abs(v[c]) * AttractionDen * strength.den
               <= Abs(d[c]) * AttractionNum * strength.num
        /\ Abs(d[c]) * AttractionNum * strength.num
               < (Abs(v[c]) + 1) * AttractionDen * strength.den

\* C21: for every edge with non-coincident endpoints the attraction step
\* changes the source's velocity towards the target and the target's
\* towards the source, by an amount that grows linearly with the distance.
C21_AttractionPullsTogether ==
    ~ loading =>
        \A k \in DOMAIN edgesRef :
            LET e == edgesRef[k]
                toTarget == Sub3(heap[TargetOf(e)].position, heap[SourceOf(e)].position)
                toSource == Sub3(heap[SourceOf(e)].position, heap[TargetOf(e)].position)
            IN  toTarget # Zero3 =>
                    /\ PullsAlong(AttractionChange(e, SourceOf(e)), toTarget, e.strength)
                    /\ PullsAlong(AttractionChange(e, TargetOf(e)), toSource, e.strength)

\* a tick has run on an edge whose endpoints are far apart, and both ends
\* are moving in x towards each other
C21_Witness ==
    /\ ticks > 0
    /\ \E k \in DOMAIN edgesRef :
           LET e == edgesRef[k]
               dx == heap[TargetOf(e)].position[1] - heap[SourceOf(e)].position[1]
           IN  /\ Abs(dx) > BoundX
               /\ heap[SourceOf(e)].velocity[1] * dx > 0
               /\ heap[TargetOf(e)].velocity[1] * dx < 0

----------------------------------------------------------------------------
(* C22 *)

\* the pairs of distinct active nodes
ActivePairs == { p \in Range(nodesRef) \X Range(nodesRef) : p[1] # p[2] }

\* repulsionStrength / 0.01, the force of a pair 0.1 apart
LargestRepulsion == RepulsionStrength \div (FallbackDistance * FallbackDistance)

\* C22: the distance a force between two active nodes is computed with is
\* never below 0.1, also when the two positions are distinct and closer than
\* 0.1, so no component of one pair's repulsion force exceeds
\* repulsionStrength / 0.01
C22_DistanceFloored ==
    \A p \in ActivePairs :
        LET diff == Sub3(heap[p[1]].position, heap[p[2]].position)
            distance == Distance(diff)
        IN  /\ distance >= FallbackDistance
            /\ \A c \in 1 .. 3 :
                   Abs(RepulsionForce(diff, distance)[c]) <= LargestRepulsion

----------------------------------------------------------------------------
(* C23 *)

\* the velocity of active node o after the force phases of a tick taken now
Forced(o) == ForcePhases(heap, nodesRef, edgesRef)[o].velocity

\* v is u damped by 0.95, then capped at maxVelocity
DampedThenCapped(v, u) ==
    \A c \in 1 .. 3 :
        LET damped == TDiv(u[c] * DampingNum, DampingDen)
        IN  /\ damped > maxVelocity => v[c] = maxVelocity
            /\ damped < -maxVelocity => v[c] = -maxVelocity
            /\ Abs(damped) <= maxVelocity => v[c] = damped

\* q is p moved by v and then kept in the box
MovedThenBoxed(q, p, v) ==
    /\ InBox(q)
    /\ \A c \in 1 .. 3 :
           LET moved == p[c] + v[c]
               side == << BoundX, BoundY, BoundZ >>[c]
           IN  (Abs(moved) <= side) => q[c] = moved

\* C23: at the end of every tick every velocity component of every active
\* node is within [-0.5, 0.5] and no position component has changed by more
\* than 0.5: the velocity is damped, then capped, then added to the
\* position, and the position is then kept in the box
C23_TickBounded ==
    [][ ticks' # ticks =>
          \A o \in Range(nodesRef) :
              /\ \A c \in 1 .. 3 :
                     /\ Abs(heap'[o].velocity[c]) <= maxVelocity
                     /\ Abs(heap'[o].position[c] - heap[o].position[c]) <= maxVelocity
              /\ DampedThenCapped(heap'[o].velocity, Forced(o))
              /\ MovedThenBoxed(heap'[o].position, heap[o].position, heap'[o].velocity)
      ]_vars

\* a tick has capped a velocity
C23_Witness ==
    /\ ticks > 0
    /\ \E o \in Range(nodesRef) :
           \E c \in 1 .. 3 : Abs(heap[o].velocity[c]) = maxVelocity

----------------------------------------------------------------------------
(* C24 *)

\* the number of active nodes, and the cap on the repulsion pairs of a tick
ActiveCount == Len(nodesRef)
PairCap == Min(RepulsionChecksPerNode * ActiveCount, RepulsionChecksCap)

\* the place of the pair (i, j), i < j, in ascending (i, j) order, from 1
PairRank(i, j) == i * (ActiveCount - 1) - (i * (i - 1)) \div 2 + (j - i)

\* the pairs among the first PairCap in ascending order, and the others
EvaluatedPairs ==
    { p \in (0 .. ActiveCount - 1) \X (0 .. ActiveCount - 1) :
        p[1] < p[2] /\ PairRank(p[1], p[2]) <= PairCap }
SkippedPairs ==
    { p \in (0 .. ActiveCount - 1) \X (0 .. ActiveCount - 1) :
        p[1] < p[2] /\ PairRank(p[1], p[2]) > PairCap }

\* the repulsion force on the node at index i from the one at index j
PairForce(i, j) ==
    LET diff == Sub3(heap[nodesRef[i + 1]].position, heap[nodesRef[j + 1]].position)
    IN  RepulsionForce(diff, Distance(diff))

\* the sum of the forces on the node at index i from its partners in the
\* evaluated pairs, partners j, j + 1, ...
RECURSIVE ForceFromEvaluated(_, _)
ForceFromEvaluated(i, j) ==
    IF j >= ActiveCount THEN Zero3
    ELSE IF << Min(i, j), Max(i, j) >> \in EvaluatedPairs
         THEN Add3(PairForce(i, j), ForceFromEvaluated(i, j + 1))
         ELSE ForceFromEvaluated(i, j + 1)

\* C24: the repulsion loop of a tick evaluates at most min(10 n, 5000)
\* pairs, exactly the first ones in ascending (i, j) order: every node's
\* velocity gains the forces of its evaluated pairs and nothing from the
\* others, and no pair is left out when n (n - 1) / 2 is within the cap
C24_FirstPairsOnly ==
    /\ Cardinality(EvaluatedPairs) <= PairCap
    /\ (ActiveCount * (ActiveCount - 1)) \div 2 <= PairCap => SkippedPairs = {}
    /\ \A i \in 0 .. ActiveCount - 1 :
           LET o == nodesRef[i + 1]
           IN  RepulsionPhase(heap, nodesRef)[o].velocity
                   = Add3(heap[o].velocity, ForceFromEvaluated(i, 0))

\* after a tick over more pairs than the cap, a skipped pair whose nodes
\* are within reach of each other's repulsion
C24_Witness ==
    /\ ticks > 0
    /\ \E p \in SkippedPairs : PairForce(p[1], p[2]) # Zero3

----------------------------------------------------------------------------
(* C25 *)

\* the component-wise sum of the velocities in heap h of the nodes ns[k],
\* ns[k + 1], ...
RECURSIVE SumOfVelocities(_, _, _)
SumOfVelocities(h, ns, k) ==
    IF k > Len(ns) THEN Zero3
    ELSE Add3(h[ns[k]].velocity, SumOfVelocities(h, ns, k + 1))

\* C25: every repulsion pair and every attraction edge adds to one node's
\* velocity the force it subtracts from the other's, so the sum of the
\* velocities of the active nodes is the same after the two force phases
\* of a tick as before them
C25_ForcesCancel ==
    SumOfVelocities(ForcePhases(heap, nodesRef, edgesRef), nodesRef, 1)
        = SumOfVelocities(heap, nodesRef, 1)

\* after a tick, a graph in which the repulsion phase and the attraction
\* phase would both change a velocity
C25_Witness ==
    /\ ticks > 0
    /\ \E o \in Range(nodesRef) :
           RepulsionPhase(heap, nodesRef)[o].velocity # heap[o].velocity
    /\ \E o \in Range(nodesRef) :
           Attraction(heap, nodesRef, edgesRef, 1)[o].velocity # heap[o].velocity

----------------------------------------------------------------------------
(* C26 *)

\* the orders in which n nodes can be listed: every order of a short
\* sequence; for a long one the given order, its reverse, a rotation and
\* the exchange of the first two
Orders(n) ==
    IF n <= MaxItems
    THEN { f \in [ 1 .. n -> 1 .. n ] : \A a, b \in 1 .. n : f[a] = f[b] => a = b }
    ELSE { [ k \in 1 .. n |-> k ],
           [ k \in 1 .. n |-> n + 1 - k ],
           [ k \in 1 .. n |-> (k % n) + 1 ],
           [ k \in 1 .. n |-> IF k = 1 THEN 2 ELSE IF k = 2 THEN 1 ELSE k ] }

\* the node sequence listed in order f, and the edges re-indexed to it and
\* visited last to first
NodesIn(f) == [ k \in DOMAIN nodesRef |-> nodesRef[f[k]] ]
IndexIn(f, i) == (CHOOSE k \in DOMAIN f : f[k] = i + 1) - 1
EdgesIn(f) ==
    [ k \in DOMAIN edgesRef |->
        LET e == edgesRef[Len(edgesRef) + 1 - k]
        IN  [ e EXCEPT !.source = IndexIn(f, e.source), !.target = IndexIn(f, e.target) ] ]

\* a tick over the active graph listed in order f leaves every node as the
\* tick over the given order does
SameTickIn(f) ==
    updateLayout(heap, NodesIn(f), EdgesIn(f), nodeMeshes).heap
        = updateLayout(heap, nodesRef, edgesRef, nodeMeshes).heap

\* every pair of active nodes is within the cap of the repulsion loop
AllPairsWithinCap == (ActiveCount * (ActiveCount - 1)) \div 2 <= PairCap

----------------------------------------------------------------------------
(* C27 *)

\* the nodes of the full graph that are not in the active graph
FilteredOut == Range(fullGraph.nodes) \ Range(nodesRef)

\* C27: a node of the full graph that is outside the active graph before
\* and after a step (a tick, a click, a close, a filter change, a rebuild)
\* keeps its position and velocity, and a tick on an empty active graph
\* changes no node and no mesh
C27_OnlyActiveNodesMove ==
    [][ /\ \A o \in FilteredOut \cap FilteredOut' :
               (o \in DOMAIN heap /\ o \in DOMAIN heap') =>
                   /\ heap'[o].position = heap[o].position
                   /\ heap'[o].velocity = heap[o].velocity
        /\ (ticks' # ticks /\ nodesRef = << >>) =>
               (heap' = heap /\ nodeMeshes' = nodeMeshes)
      ]_vars

\* the last tick is over and a node that was moving when it was filtered
\* out is outside the committed active graph
C27_Witness ==
    /\ nodesArray = "filtered"
    /\ ~ dirty
    /\ before = NoRebuild
    /\ ticks = MaxTicks
    /\ \E o \in FilteredOut : heap[o].velocity # Zero3

\* ticks have run on an empty active graph
C27_WitnessEmpty ==
    /\ ~ loading
    /\ nodesRef = << >>
    /\ ticks = MaxTicks

----------------------------------------------------------------------------
(* C28 *)

\* the position the node of item it held right before the last rebuild
PriorPosition(it) == EntryBefore(it).position

\* C28: right after a rebuild every surviving node is at its own prior
\* position, also when several items carry the same episode_name: none is
\* at the position another node held, so two nodes at distinct positions
\* before the rebuild are at distinct positions after it
C28_OwnPositionKept ==
    before.rebuilt =>
        \A o \in Survivors :
            /\ heap[o].position = PriorPosition(heap[o].id)
            /\ \A p \in Survivors :
                   PriorPosition(heap[p].id) # PriorPosition(heap[o].id)
                       => heap[p].position # heap[o].position

----------------------------------------------------------------------------
(* C29 *)

\* the items of the active graph
ActiveItems == { heap[o].episode : o \in Range(nodes) }

\* C29: the simulation is paused exactly while an item is selected, and the
\* selected item is an item of the active graph: the detail view never
\* shows an item that has been filtered out
C29_SelectedIsActive ==
    ~ loading =>
        /\ paused <=> selectedNode # Null
        /\ selectedNode # Null => selectedNode[1] \in ActiveItems

----------------------------------------------------------------------------
(* C30 *)

\* the mount effect's cleanup has run
CleanedUp == ~ loading /\ ~ animation.mounted

\* one loop: while Graph3D is mounted exactly one frame is requested, the
\* one whose handle animationFrameRef holds
OneLoop ==
    (~ loading /\ animation.mounted) =>
        animation.requested = { animation.animationFrameRef }

\* a step that runs ticks is one frame callback of the mounted component:
\* it uses up the requested frame, requests exactly one new one and runs
\* updateLayout exactly once
OneTickPerFrame ==
    ticks' # ticks =>
        /\ animation.mounted
        /\ ticks' = ticks + 1
        /\ Cardinality(animation'.requested) = 1
        /\ animation'.requested \cap animation.requested = {}
        /\ heap' = updateLayout(heap, nodesRef, edgesRef, nodeMeshes).heap

\* after the cleanup nothing is requested and nothing moves any more
NothingAfterCleanup ==
    CleanedUp =>
        /\ animation.requested = {}
        /\ ticks' = ticks
        /\ heap' = heap
        /\ nodeMeshes' = nodeMeshes

\* C30: exactly one animation loop runs per mounted Graph3D; every frame
\* callback requests exactly one next frame and runs exactly one tick; and
\* after the cleanup no tick is ever run, whether the cleanup comes before
\* the first frame callback or after any later one
C30_OneAnimationLoop ==
    /\ []OneLoop
    /\ [][OneTickPerFrame /\ NothingAfterCleanup]_vars

\* the component was unmounted after frame callbacks had run
C30_Witness ==
    /\ CleanedUp
    /\ ticks > 0
    /\ ticks < MaxTicks
    /\ nodesRef # << >>

====
